---- MODULE Spec2Model ----
(***************************************************************************)
(* The longitudinal vehicle model of the notebook: class Vehicle with its  *)
(* constructor, reset() and step(throttle, alpha), and the driver loop     *)
(* that calls step with held inputs and records the velocity; and class    *)
(* Bicycle of the kinematic bicycle notebook, whose constructor and        *)
(* reset() the notebook holds and whose step is the one its governing      *)
(* equations describe.                                                     *)
(*                                                                         *)
(* Numbers.  The program computes in floating point.  Here every real      *)
(* quantity q is the integer q * SCALE (four decimal places), and every    *)
(* multiplication and division rounds its result to the nearest multiple   *)
(* of 1/SCALE, as a floating-point operation rounds to the nearest         *)
(* representable value.  One unit of the last place is Ulp.  A quotient    *)
(* too large to represent, and a division by zero (which NumPy scalars     *)
(* answer with inf or nan, not with an exception), is the value Huge.      *)
(***************************************************************************)
EXTENDS Integers, Sequences, FiniteSets, TLC

VARIABLES
    self,      \* the Vehicle instance: attribute name |-> value
    pre,       \* the instance as it was when the most recent call began
    op,        \* the most recent call: "init", "step" or "reset"
    throttle,  \* the throttle argument of the step calls
    alpha,     \* the incline argument of the step calls
    calls,     \* number of step calls made on the instance
    v_data,    \* the velocities the driver loop has recorded
    x_data,    \* the positions the incline demo has recorded
    fleet,     \* further instances, by name: two Vehicles and a Bicycle
    call       \* the most recent call on an instance of fleet: on, args

vars == <<self, pre, op, throttle, alpha, calls, v_data, x_data, fleet, call>>

----------------------------------------------------------------------------
(* Bounds of the model.                                                    *)

\* step calls explored with freely chosen inputs
MaxCalls == 4
\* iterations of the driver loop with held inputs
MaxHold == 600
\* steps at the end of the constant-throttle demo over which the velocity
\* is compared
Window == 100

\* step calls made on the bicycle
MaxBicycleCalls == 4

\* step calls after which no further Vehicle of fleet is stepped
MaxFleetCalls == 2

\* step calls made on a Vehicle before it is reset
MaxBefore == 2

\* step calls made on a Vehicle after it is reset
MaxAfter == 3

----------------------------------------------------------------------------
(* Arithmetic.                                                             *)

SCALE == 10 ^ 4

Ulp == SCALE \div SCALE

\* n/d as a fixed-point number, for the decimal literals of the source
Dec(n, d) == (n * SCALE) \div d

\* the largest magnitude the arithmetic represents; stands for inf and nan
Huge == 200000 * SCALE

Abs(n) == IF n < 0 THEN -n ELSE n

Sgn(n) == IF n < 0 THEN -1 ELSE 1

\* n / d for naturals n, d > 0, rounded to the nearest integer
RDiv(n, d) == (2 * n + d) \div (2 * d)

\* the product a * b, rounded to nearest
Mul(a, b) ==
    LET m  == Abs(a)
        n  == Abs(b)
        mh == m \div SCALE
        ml == m % SCALE
        nh == n \div SCALE
        nl == n % SCALE
    IN  Sgn(a) * Sgn(b) * (mh * nh * SCALE + mh * nl + ml * nh + RDiv(ml * nl, SCALE))

\* the quotient a / b, rounded to nearest; Huge for b = 0 or on overflow
Div(a, b) ==
    IF b = 0 THEN Huge
    ELSE LET n  == Abs(a)
             d  == Abs(b)
             q0 == n \div d
             r0 == n % d
             q1 == (10 * r0) \div d
             r1 == (10 * r0) % d
             q2 == (10 * r1) \div d
             r2 == (10 * r1) % d
             q3 == (10 * r2) \div d
             r3 == (10 * r2) % d
             q4 == (10 * r3) \div d
             r4 == (10 * r3) % d
             up == IF 2 * r4 >= d THEN 1 ELSE 0
         IN  IF q0 >= Huge \div SCALE
             THEN Sgn(a) * Sgn(b) * Huge
             ELSE Sgn(a) * Sgn(b)
                    * (q0 * SCALE + q1 * 1000 + q2 * 100 + q3 * 10 + q4 + up)

\* np.sin for the small angles used: alpha - alpha^3/6 + alpha^5/120
sin(al) ==
    LET a2 == Mul(al, al)
        a3 == Mul(a2, al)
        a5 == Mul(a3, a2)
    IN  al - Div(a3, 6 * SCALE) + Div(a5, 120 * SCALE)

\* np.cos for small angles: 1 - t^2/2 + t^4/24 - t^6/720
cos(th) ==
    LET t2 == Mul(th, th)
        t4 == Mul(t2, t2)
        t6 == Mul(t4, t2)
    IN  SCALE - Div(t2, 2 * SCALE) + Div(t4, 24 * SCALE) - Div(t6, 720 * SCALE)

\* np.tan for small angles
tan(th) == Div(sin(th), cos(th))

\* np.arctan for small arguments: y - y^3/3 + y^5/5 - y^7/7
arctan(y) ==
    LET y2 == Mul(y, y)
        y3 == Mul(y2, y)
        y5 == Mul(y3, y2)
        y7 == Mul(y5, y2)
    IN  y - Div(y3, 3 * SCALE) + Div(y5, 5 * SCALE) - Div(y7, 7 * SCALE)

----------------------------------------------------------------------------
(* class Vehicle.                                                          *)

ParamNames ==
    {"a_0", "a_1", "a_2", "GR", "r_e", "J_e", "m", "g", "c_a", "c_r1", "c",
     "F_max", "sample_time"}

StateNames == {"x", "v", "a", "w_e", "w_e_dot"}

\* the five state variables of an instance
StateOf(s) == [n \in StateNames |-> s[n]]

\* the parameters of an instance
ParamsOf(s) == [n \in ParamNames |-> s[n]]

\* __init__ with v = 0: a constructor that disagrees with reset()
Vehicle_rest ==
    [a_0 |-> 400 * SCALE, a_1 |-> Dec(1, 10), a_2 |-> -Dec(2, 10000),
     GR |-> Dec(35, 100), r_e |-> Dec(3, 10), J_e |-> 10 * SCALE,
     m |-> 2000 * SCALE, g |-> Dec(981, 100),
     c_a |-> Dec(136, 100), c_r1 |-> Dec(1, 100),
     c |-> 10000 * SCALE, F_max |-> 10000 * SCALE,
     x |-> 0, v |-> 0, a |-> 0, w_e |-> 100 * SCALE, w_e_dot |-> 0,
     sample_time |-> Dec(1, 100)]

\* Vehicle(): the instance __init__ builds
Vehicle ==
    [a_0 |-> 400 * SCALE, a_1 |-> Dec(1, 10), a_2 |-> -Dec(2, 10000),
     GR |-> Dec(35, 100), r_e |-> Dec(3, 10), J_e |-> 10 * SCALE,
     m |-> 2000 * SCALE, g |-> Dec(981, 100),
     c_a |-> Dec(136, 100), c_r1 |-> Dec(1, 100),
     c |-> 10000 * SCALE, F_max |-> 10000 * SCALE,
     x |-> 0, v |-> 5 * SCALE, a |-> 0, w_e |-> 100 * SCALE, w_e_dot |-> 0,
     sample_time |-> Dec(1, 100)]

\* reset() that leaves w_e_dot as it was
reset_keeps_w_e_dot(s) ==
    [s EXCEPT !.x = 0, !.v = 5 * SCALE, !.a = 0, !.w_e = 100 * SCALE]

\* reset() that writes a_0 where it should write a
reset_clears_a_0(s) ==
    [s EXCEPT !.x = 0, !.v = 5 * SCALE, !.a_0 = 0, !.a = 0,
              !.w_e = 100 * SCALE, !.w_e_dot = 0]

\* reset(): the five state variables get their initial values
reset(s) ==
    [s EXCEPT !.x = 0, !.v = 5 * SCALE, !.a = 0, !.w_e = 100 * SCALE,
              !.w_e_dot = 0]

\* F_load = F_aero + R_x + F_g
F_load(s, al) ==
    LET F_aero == Mul(Mul(s.c_a, s.v), s.v)
        R_x    == Mul(s.c_r1, s.v)
        F_g    == Mul(Mul(s.m, s.g), sin(al))
    IN  F_aero + R_x + F_g

\* the engine torque with the throttle clamped to [0, 1]
Torque_e_clamped(s, th) ==
    LET t == IF th < 0 THEN 0 ELSE IF th > SCALE THEN SCALE ELSE th
    IN  Mul(t, s.a_0 + Mul(s.a_1, s.w_e) + Mul(s.a_2, Mul(s.w_e, s.w_e)))

\* Torque_e = throttle * (a_0 + a_1 * w_e + a_2 * w_e ** 2)
Torque_e(s, th) ==
    Mul(th, s.a_0 + Mul(s.a_1, s.w_e) + Mul(s.a_2, Mul(s.w_e, s.w_e)))

\* s = (Omega_w * r_e - v) / v, the slip ratio.  F_g comes from np.sin, so
\* from the second step on v and w_e are NumPy scalars: at v = 0 the
\* division raises nothing and s is inf or nan (Huge here), for which
\* abs(s) < 1 is false.
slip(s) ==
    LET Omega_w == Mul(s.GR, s.w_e)
    IN  Div(Mul(Omega_w, s.r_e) - s.v, s.v)

\* the tire force with the saturation carrying the sign of the slip
F_x_signed(s) ==
    LET sl == slip(s)
        cs == Mul(s.c, sl)
    IN  IF Abs(sl) < SCALE THEN cs ELSE Sgn(sl) * s.F_max

\* F_x: cs when abs(s) < 1, F_max otherwise
F_x(s) ==
    LET sl == slip(s)
        cs == Mul(s.c, sl)
    IN  IF Abs(sl) < SCALE THEN cs ELSE s.F_max

\* the update with a assigned before v, so that v integrates the new a
update_a_first(s, Fx, Fload, Te) ==
    LET s1 == [s  EXCEPT !.x = s.x + Mul(s.v, s.sample_time)]
        s2 == [s1 EXCEPT !.a = Div(Fx - Fload, s1.m)]
        s3 == [s2 EXCEPT !.v = s2.v + Mul(s2.a, s2.sample_time)]
        s4 == [s3 EXCEPT !.w_e = s3.w_e + Mul(s3.w_e_dot, s3.sample_time)]
    IN  [s4 EXCEPT !.w_e_dot = Div(Te - Mul(Mul(s4.GR, s4.r_e), Fload), s4.J_e)]

\* the update that also keeps the load as an attribute of the instance
update_keeps_load(s, Fx, Fload, Te) ==
    LET s1 == [s  EXCEPT !.x = s.x + Mul(s.v, s.sample_time)]
        s2 == [s1 EXCEPT !.v = s1.v + Mul(s1.a, s1.sample_time)]
        s3 == [s2 EXCEPT !.a = Div(Fx - Fload, s2.m)]
        s4 == [s3 EXCEPT !.w_e = s3.w_e + Mul(s3.w_e_dot, s3.sample_time)]
        s5 == [s4 EXCEPT !.w_e_dot = Div(Te - Mul(Mul(s4.GR, s4.r_e), Fload), s4.J_e)]
    IN  [n \in DOMAIN s5 \cup {"F_load"} |-> IF n = "F_load" THEN Fload ELSE s5[n]]

\* the update with the operands of the acceleration swapped
update_load_minus_force(s, Fx, Fload, Te) ==
    LET s1 == [s  EXCEPT !.x = s.x + Mul(s.v, s.sample_time)]
        s2 == [s1 EXCEPT !.v = s1.v + Mul(s1.a, s1.sample_time)]
        s3 == [s2 EXCEPT !.a = Div(Fload - Fx, s2.m)]
        s4 == [s3 EXCEPT !.w_e = s3.w_e + Mul(s3.w_e_dot, s3.sample_time)]
    IN  [s4 EXCEPT !.w_e_dot = Div(Te - Mul(Mul(s4.GR, s4.r_e), Fload), s4.J_e)]

\* the five assignments that end step, in the order the code makes them
update(s, Fx, Fload, Te) ==
    LET s1 == [s  EXCEPT !.x = s.x + Mul(s.v, s.sample_time)]
        s2 == [s1 EXCEPT !.v = s1.v + Mul(s1.a, s1.sample_time)]
        s3 == [s2 EXCEPT !.a = Div(Fx - Fload, s2.m)]
        s4 == [s3 EXCEPT !.w_e = s3.w_e + Mul(s3.w_e_dot, s3.sample_time)]
    IN  [s4 EXCEPT !.w_e_dot = Div(Te - Mul(Mul(s4.GR, s4.r_e), Fload), s4.J_e)]

\* step(throttle, alpha): forces from the instance as it is, then the update
step(s, th, al) == update(s, F_x(s), F_load(s, al), Torque_e(s, th))

----------------------------------------------------------------------------
(* class Bicycle.                                                          *)

BicycleParamNames == {"L", "lr", "w_max", "sample_time"}

BicycleStateNames == {"xc", "yc", "theta", "delta", "beta"}

\* Bicycle(): the instance __init__ builds
Bicycle ==
    [xc |-> 0, yc |-> 0, theta |-> 0, delta |-> 0, beta |-> 0,
     L |-> 2 * SCALE, lr |-> Dec(12, 10), w_max |-> Dec(122, 100),
     sample_time |-> Dec(1, 100)]

\* Bicycle.reset() that leaves the slip angle as it was
bicycle_reset_keeps_beta(b) ==
    [b EXCEPT !.xc = 0, !.yc = 0, !.theta = 0, !.delta = 0]

\* Bicycle.reset(): the five state variables become 0
bicycle_reset(b) ==
    [b EXCEPT !.xc = 0, !.yc = 0, !.theta = 0, !.delta = 0, !.beta = 0]

\* the steering rate applied, without the limit
steering_rate_unlimited(b, w) == w

\* the steering rate applied: the request, limited to [-w_max, w_max]
steering_rate(b, w) ==
    IF w > b.w_max THEN b.w_max ELSE IF w < -b.w_max THEN -b.w_max ELSE w

\* the slip angle beta = arctan(lr * tan(delta) / L)
slip_angle(b) == arctan(Div(Mul(b.lr, tan(b.delta)), b.L))

\* the kinematic update with the rates taken from the slip angle the
\* instance still holds from the step before
bicycle_step_stale_beta(b, v, input_value, is_rate) ==
    LET dt        == b.sample_time
        delta_new == IF is_rate
                     THEN b.delta + Mul(steering_rate(b, input_value), dt)
                     ELSE input_value
        theta_dot == Div(Mul(Mul(v, cos(b.beta)), tan(b.delta)), b.L)
        xc_dot    == Mul(v, cos(b.theta + b.beta))
        yc_dot    == Mul(v, sin(b.theta + b.beta))
    IN  [b EXCEPT !.xc = b.xc + Mul(xc_dot, dt),
                  !.yc = b.yc + Mul(yc_dot, dt),
                  !.theta = b.theta + Mul(theta_dot, dt),
                  !.delta = delta_new,
                  !.beta = slip_angle(b)]

\* Bicycle.step(v, input_value, is_rate): one forward-Euler step of the
\* governing equations, the rates evaluated at the state the step began with
bicycle_step(b, v, input_value, is_rate) ==
    LET dt        == b.sample_time
        delta_new == IF is_rate
                     THEN b.delta + Mul(steering_rate(b, input_value), dt)
                     ELSE input_value
        beta      == slip_angle(b)
        theta_dot == Div(Mul(Mul(v, cos(beta)), tan(b.delta)), b.L)
        xc_dot    == Mul(v, cos(b.theta + beta))
        yc_dot    == Mul(v, sin(b.theta + beta))
    IN  [b EXCEPT !.xc = b.xc + Mul(xc_dot, dt),
                  !.yc = b.yc + Mul(yc_dot, dt),
                  !.theta = b.theta + Mul(theta_dot, dt),
                  !.delta = delta_new,
                  !.beta = beta]

\* an attribute assignment that lands on the class, not on the instance:
\* every instance of fleet built by the same constructor sees it
assign_shared(f, n, r) ==
    [k \in DOMAIN f |-> IF DOMAIN f[k] = DOMAIN f[n] THEN r ELSE f[k]]

\* the assignments self.attr = value of a method called on instance n of
\* fleet f, r being the instance after them: they write that instance only
assign(f, n, r) == [f EXCEPT ![n] = r]

----------------------------------------------------------------------------
(* The calls a driver makes.                                               *)

\* throttle arguments tried: below 0, the nominal range, above 1
Throttles == {-Dec(1, 2), 0, Dec(1, 2), Dec(3, 2)}

\* incline angles tried (radians): flat and the demo's steeper grade
Alphas == {0, Dec(1, 10)}

\* the (throttle, alpha) pairs the driver loop holds for a whole run
HeldInputs ==
    {<<0, 0>>, <<0, Dec(1, 10)>>, <<Dec(35, 100), Dec(2, 10)>>,
     <<Dec(4, 10), Dec(2, 10)>>, <<Dec(1, 2), 0>>}

\* the instances of fleet as constructed
Fleet0 == [model |-> Vehicle, model2 |-> Vehicle, bike |-> Bicycle]

\* no call has been made on an instance of fleet
NoCall == [on |-> "none", args |-> <<>>]

Init ==
    /\ self = Vehicle
    /\ pre = Vehicle
    /\ op = "init"
    /\ throttle = 0
    /\ alpha = 0
    /\ calls = 0
    /\ v_data = <<>>
    /\ x_data = <<>>
    /\ fleet = Fleet0
    /\ call = NoCall

\* model.step(th, al) with any of the inputs tried
Step ==
    /\ calls < MaxCalls
    /\ \E th \in Throttles, al \in Alphas :
          /\ throttle' = th
          /\ alpha' = al
          /\ self' = step(self, th, al)
    /\ pre' = self
    /\ op' = "step"
    /\ calls' = calls + 1
    /\ UNCHANGED <<v_data, x_data, fleet, call>>

\* model.reset()
Reset ==
    /\ self' = reset(self)
    /\ pre' = self
    /\ op' = "reset"
    /\ UNCHANGED <<throttle, alpha, calls, v_data, x_data, fleet, call>>

Next == Step \/ Reset

Spec == Init /\ [][Next]_vars

\* the driver's setup: a fresh model and the inputs it will hold
InitHold ==
    /\ self = Vehicle
    /\ pre = Vehicle
    /\ op = "init"
    /\ \E h \in HeldInputs : throttle = h[1] /\ alpha = h[2]
    /\ calls = 0
    /\ v_data = <<>>
    /\ x_data = <<>>
    /\ fleet = Fleet0
    /\ call = NoCall

\* one iteration of the loop: v_data[i] = model.v; model.step(throttle, alpha)
Drive ==
    /\ calls < MaxHold
    /\ op # "reset"
    /\ v_data' = Append(v_data, self.v)
    /\ self' = step(self, throttle, alpha)
    /\ pre' = self
    /\ op' = "step"
    /\ calls' = calls + 1
    /\ UNCHANGED <<throttle, alpha, x_data, fleet, call>>

\* model.reset() once the loop has run to its end
DriveReset ==
    /\ calls = MaxHold
    /\ op = "step"
    /\ self' = reset(self)
    /\ pre' = self
    /\ op' = "reset"
    /\ UNCHANGED <<throttle, alpha, calls, v_data, x_data, fleet, call>>

NextHold == Drive \/ DriveReset

SpecHold == InitHold /\ [][NextHold]_vars

\* time_end of the constant-throttle demo, in seconds
time_end == 100

\* t_data.shape[0]: the ticks of np.arange(0, time_end, sample_time)
Ticks == (time_end * SCALE) \div Vehicle.sample_time

\* the constant-throttle demo as written: a fresh model, throttle = 0.5,
\* alpha = 0
InitDemo ==
    /\ self = Vehicle
    /\ pre = Vehicle
    /\ op = "init"
    /\ throttle = Dec(1, 2)
    /\ alpha = 0
    /\ calls = 0
    /\ v_data = <<>>
    /\ x_data = <<>>
    /\ fleet = Fleet0
    /\ call = NoCall

\* one tick of the demo: v_data[i] = model.v; model.step(throttle, alpha).
\* Of v_data only the last Window entries are kept, those the comparison
\* over the end of the run reads.
Tick ==
    /\ calls < Ticks
    /\ v_data' = IF Len(v_data) < Window THEN Append(v_data, self.v)
                 ELSE Append(Tail(v_data), self.v)
    /\ self' = step(self, throttle, alpha)
    /\ pre' = self
    /\ op' = "step"
    /\ calls' = calls + 1
    /\ UNCHANGED <<throttle, alpha, x_data, fleet, call>>

SpecDemo == InitDemo /\ [][Tick]_vars

\* time_end of the incline demo, in seconds
time_end_incline == 20

\* t_data.shape[0] of the incline demo
InclineTicks == (time_end_incline * SCALE) \div Vehicle.sample_time

\* the branches of the throttle schedule whose condition holds at tick i:
\* 1 for the ramp up, 2 for the plateau, 3 for the ramp down
throttle_branches(i) ==
    {b \in {1} : i >= 0 /\ i <= 500}
        \cup {b \in {2} : i > 500 /\ i < 1500}
        \cup {b \in {3} : i >= 1500 /\ i < 2000}

\* the throttle schedule with a ramp up as steep as the ramp down
throttle_at_steep_ramp(i, th) ==
    IF 1 \in throttle_branches(i)
    THEN LET delta_throttle == Div(Dec(1, 2), 500 * SCALE)
         IN  Dec(2, 10) + Mul(delta_throttle, i * SCALE)
    ELSE IF 2 \in throttle_branches(i)
    THEN Dec(1, 2)
    ELSE IF 3 \in throttle_branches(i)
    THEN LET delta_throttle == Div(Dec(1, 2), 500 * SCALE)
         IN  Dec(1, 2) - Mul(delta_throttle, (i - 1500) * SCALE)
    ELSE th

\* the throttle of tick i, th being the value the variable held before:
\* the if / elif chain of the loop, first true branch taken, the variable
\* left alone when no branch is
throttle_at(i, th) ==
    IF 1 \in throttle_branches(i)
    THEN LET delta_throttle == Div(Dec(1, 2) - Dec(2, 10), 500 * SCALE)
         IN  Dec(2, 10) + Mul(delta_throttle, i * SCALE)
    ELSE IF 2 \in throttle_branches(i)
    THEN Dec(1, 2)
    ELSE IF 3 \in throttle_branches(i)
    THEN LET delta_throttle == Div(Dec(1, 2), 500 * SCALE)
         IN  Dec(1, 2) - Mul(delta_throttle, (i - 1500) * SCALE)
    ELSE th

\* the branches of the incline schedule whose condition holds at position
\* x: 1 for the first slope, 2 for the second, 3 for the flat
alpha_branches(x) ==
    {b \in {1} : x <= 60 * SCALE}
        \cup {b \in {2} : x > 60 * SCALE /\ x < 150 * SCALE}
        \cup {b \in {3} : x >= 150 * SCALE}

\* the incline schedule with the two slopes in the other order
alpha_at_slopes_swapped(x, al) ==
    IF 1 \in alpha_branches(x) THEN Dec(1, 10)
    ELSE IF 2 \in alpha_branches(x) THEN Dec(5, 100)
    ELSE IF 3 \in alpha_branches(x) THEN 0
    ELSE al

\* the incline angle at position x, al being the value the variable held
\* before: the if / elif chain of the loop
alpha_at(x, al) ==
    IF 1 \in alpha_branches(x) THEN Dec(5, 100)
    ELSE IF 2 \in alpha_branches(x) THEN Dec(1, 10)
    ELSE IF 3 \in alpha_branches(x) THEN 0
    ELSE al

\* model.reset() at the head of the incline demo. The model it is called
\* on is the one the constant-throttle demo has driven, and throttle and
\* alpha still hold that demo's values; reset() assigns all five state
\* variables, so what it leaves of that model is what it leaves of a
\* constructed one.
InclineReset ==
    /\ op = "init"
    /\ self' = reset(self)
    /\ pre' = self
    /\ op' = "reset"
    /\ UNCHANGED <<throttle, alpha, calls, v_data, x_data, fleet, call>>

\* tick i = calls of the incline demo: throttle and alpha are set from i
\* and model.x, then x_data[i] = model.x and model.step(throttle, alpha).
\* Of x_data only the last Window entries are kept.
InclineTick ==
    /\ op \in {"reset", "step"}
    /\ calls < InclineTicks
    /\ throttle' = throttle_at(calls, throttle)
    /\ alpha' = alpha_at(self.x, alpha)
    /\ x_data' = IF Len(x_data) < Window THEN Append(x_data, self.x)
                 ELSE Append(Tail(x_data), self.x)
    /\ self' = step(self, throttle', alpha')
    /\ pre' = self
    /\ op' = "step"
    /\ calls' = calls + 1
    /\ UNCHANGED <<v_data, fleet, call>>

NextIncline == InclineReset \/ InclineTick

SpecIncline == InitDemo /\ [][NextIncline]_vars

\* the calls bicycle.step(v, input_value, is_rate) tried: both steering
\* modes, steering rates inside and beyond w_max, and several speeds
BicycleCalls ==
    {<<2 * SCALE, 0, FALSE>>, <<5 * SCALE, Dec(2, 10), FALSE>>,
     <<2 * SCALE, 10 * SCALE, TRUE>>, <<5 * SCALE, -10 * SCALE, TRUE>>,
     <<3 * SCALE, Dec(1, 2), TRUE>>, <<4 * SCALE, 0, TRUE>>}

\* bike.step(v, input_value, is_rate) with any of the calls tried
BicycleStep ==
    /\ calls < MaxBicycleCalls
    /\ \E c \in BicycleCalls :
          /\ fleet' = assign(fleet, "bike",
                             bicycle_step(fleet.bike, c[1], c[2], c[3]))
          /\ call' = [on |-> "bike", args |-> c]
    /\ pre' = fleet.bike
    /\ op' = "bicycle.step"
    /\ calls' = calls + 1
    /\ UNCHANGED <<self, throttle, alpha, v_data, x_data>>

\* bike.reset()
BicycleReset ==
    /\ fleet' = assign(fleet, "bike", bicycle_reset(fleet.bike))
    /\ call' = [on |-> "bike", args |-> <<>>]
    /\ pre' = fleet.bike
    /\ op' = "bicycle.reset"
    /\ UNCHANGED <<self, throttle, alpha, calls, v_data, x_data>>

NextBicycle == BicycleStep \/ BicycleReset

SpecBicycle == Init /\ [][NextBicycle]_vars

\* the names of the Vehicles of fleet
FleetVehicles == {n \in DOMAIN Fleet0 : DOMAIN Fleet0[n] = DOMAIN Vehicle}

\* the inputs (throttle, alpha) tried on the Vehicles of fleet
FleetInputs == {<<Dec(1, 2), 0>>, <<0, Dec(1, 10)>>}

\* n.step(th, al) on a Vehicle n of fleet
FleetStep ==
    /\ calls < MaxFleetCalls
    /\ \E n \in FleetVehicles, i \in FleetInputs :
          /\ fleet' = assign(fleet, n, step(fleet[n], i[1], i[2]))
          /\ call' = [on |-> n, args |-> i]
          /\ pre' = fleet[n]
    /\ op' = "fleet.step"
    /\ calls' = calls + 1
    /\ UNCHANGED <<self, throttle, alpha, v_data, x_data>>

\* n.reset() on a Vehicle n of fleet
FleetReset ==
    /\ \E n \in FleetVehicles :
          /\ fleet' = assign(fleet, n, reset(fleet[n]))
          /\ call' = [on |-> n, args |-> <<>>]
          /\ pre' = fleet[n]
    /\ op' = "fleet.reset"
    /\ UNCHANGED <<self, throttle, alpha, calls, v_data, x_data>>

\* calls on the three instances of fleet, in any interleaving
NextFleet == FleetStep \/ FleetReset \/ BicycleStep \/ BicycleReset

SpecFleet == Init /\ [][NextFleet]_vars

\* model.step(th, al) on the Vehicle that will be reset, model2 being left
\* as constructed
Before ==
    /\ calls < MaxBefore
    /\ op \in {"init", "before"}
    /\ \E th \in Throttles, al \in Alphas :
          /\ fleet' = assign(fleet, "model", step(fleet.model, th, al))
          /\ call' = [on |-> "model", args |-> <<th, al>>]
    /\ pre' = fleet.model
    /\ op' = "before"
    /\ calls' = calls + 1
    /\ UNCHANGED <<self, throttle, alpha, v_data, x_data>>

\* model.reset(), after which model and model2 are driven side by side
TwinReset ==
    /\ op \in {"init", "before"}
    /\ fleet' = assign(fleet, "model", reset(fleet.model))
    /\ call' = [on |-> "model", args |-> <<>>]
    /\ pre' = fleet.model
    /\ op' = "twin.reset"
    /\ UNCHANGED <<self, throttle, alpha, calls, v_data, x_data>>

\* v_data[i] = model.v; model.step(th, al); model2.step(th, al): the same
\* inputs to the reset instance and to the fresh one
TwinStep ==
    /\ Len(v_data) < MaxAfter
    /\ op \in {"twin.reset", "twin.step"}
    /\ v_data' = Append(v_data, fleet.model.v)
    /\ \E th \in Throttles, al \in Alphas :
          /\ fleet' = assign(assign(fleet, "model", step(fleet.model, th, al)),
                             "model2", step(fleet.model2, th, al))
          /\ call' = [on |-> "model", args |-> <<th, al>>]
    /\ pre' = fleet.model
    /\ op' = "twin.step"
    /\ calls' = calls + 1
    /\ UNCHANGED <<self, throttle, alpha, x_data>>

NextTwin == Before \/ TwinReset \/ TwinStep

SpecTwin == Init /\ [][NextTwin]_vars

----------------------------------------------------------------------------
(* Claims about reset() and the constructor.                               *)

\* the instance whose parameters are the constructor's and whose five
\* state variables are those of s
WithState(s) ==
    [n \in DOMAIN Vehicle |-> IF n \in StateNames THEN s[n] ELSE Vehicle[n]]

\* C1: after any sequence of step calls (of any length, zero included)
\* followed by reset(), the state is exactly x = 0, v = 5, a = 0,
\* w_e = 100, w_e_dot = 0.
C1_ResetRestoresInitialState ==
    op = "reset" =>
        /\ self.x = 0
        /\ self.v = 5 * SCALE
        /\ self.a = 0
        /\ self.w_e = 100 * SCALE
        /\ self.w_e_dot = 0

\* C1 witness: reset() was called after steps that had moved every one of
\* the five state variables away from its initial value.
C1_Witness ==
    /\ op = "reset"
    /\ calls >= 2
    /\ pre.x # 0
    /\ pre.v # 5 * SCALE
    /\ pre.a # 0
    /\ pre.w_e # 100 * SCALE
    /\ pre.w_e_dot # 0
    /\ StateOf(self) = StateOf(Vehicle)

\* C2: reset() leaves every parameter (a_0, a_1, a_2, GR, r_e, J_e, m, g,
\* c_a, c_r1, c, F_max, sample_time) with the value it had before the call.
C2_ResetKeepsParameters ==
    op = "reset" => \A n \in ParamNames : self[n] = pre[n]

\* C2 witness: a reset() that did change the state of the instance.
C2_Witness ==
    /\ op = "reset"
    /\ StateOf(self) # StateOf(pre)
    /\ ParamsOf(self) = ParamsOf(pre)

\* C3: a newly constructed Vehicle on which step was never called has
\* x = 0, v = 5, a = 0, w_e = 100, w_e_dot = 0 and sample_time = 0.01,
\* which is the state reset() produces.
C3_ConstructedStateIsResetState ==
    (op = "init" /\ calls = 0) =>
        /\ self.x = 0
        /\ self.v = 5 * SCALE
        /\ self.a = 0
        /\ self.w_e = 100 * SCALE
        /\ self.w_e_dot = 0
        /\ self.sample_time = Dec(1, 100)
        /\ self = reset(self)

\* C3 witness: the instance as constructed, before any call.
C3_Witness ==
    /\ op = "init"
    /\ calls = 0
    /\ v_data = <<>>
    /\ x_data = <<>>
    /\ fleet = Fleet0
    /\ call = NoCall
    /\ self.v = 5 * SCALE

----------------------------------------------------------------------------
(* Claims about step(throttle, alpha).                                     *)

\* C4: step is one synchronous forward-Euler update of the pre-call state:
\* x' = x + v*dt, v' = v + a*dt, w_e' = w_e + w_e_dot*dt,
\* a' = (F_x - F_load)/m and w_e_dot' = (T_e - GR*r_e*F_load)/J_e, every
\* right-hand side read from the pre-call state (v' from the old a, w_e'
\* from the old w_e_dot, x' from the old v).
C4_StepIsSynchronousEuler ==
    op = "step" =>
        LET dt == pre.sample_time
            Fl == F_load(pre, alpha)
        IN  /\ self.x = pre.x + Mul(pre.v, dt)
            /\ self.v = pre.v + Mul(pre.a, dt)
            /\ self.w_e = pre.w_e + Mul(pre.w_e_dot, dt)
            /\ self.a = Div(F_x(pre) - Fl, pre.m)
            /\ self.w_e_dot =
                  Div(Torque_e(pre, throttle) - Mul(Mul(pre.GR, pre.r_e), Fl),
                      pre.J_e)

\* C4 witness: a step in the linear tire regime whose old and new a differ
\* and whose old and new w_e_dot differ, so that integrating the new value
\* instead of the old one would give another v and another w_e.
C4_Witness ==
    /\ op = "step"
    /\ Abs(slip(pre)) < SCALE
    /\ pre.a # 0
    /\ Mul(self.a, pre.sample_time) # Mul(pre.a, pre.sample_time)
    /\ Mul(self.w_e_dot, pre.sample_time) # Mul(pre.w_e_dot, pre.sample_time)
    /\ self.v # pre.v
    /\ self.w_e # pre.w_e

\* C5: the tire force is c*s when |s| < 1 and exactly F_max (positive,
\* whatever the sign of s) when |s| >= 1, at s = 1, s = -1 and s < -1 too;
\* with c = F_max the linear branch meets F_max at s = 1: one step of s
\* below 1 the force is c times that step below F_max.
C5_TireForceLaw ==
    op = "step" =>
        LET sl  == slip(pre)
            law == IF -SCALE < sl /\ sl < SCALE THEN Mul(pre.c, sl)
                   ELSE pre.F_max
        IN  /\ F_x(pre) = law
            /\ self.a = Div(law - F_load(pre, alpha), pre.m)
            /\ pre.c = pre.F_max
            /\ pre.F_max - Mul(pre.c, SCALE - Ulp) = Mul(pre.c, Ulp)

\* C5 witness: a step taken with slip ratio below -1, after which the
\* acceleration is the one the positive F_max gives.
C5_Witness ==
    /\ op = "step"
    /\ slip(pre) < -SCALE
    /\ pre.v > 0
    /\ self.a = Div(pre.F_max - F_load(pre, alpha), pre.m)
    /\ self.a # Div(-pre.F_max - F_load(pre, alpha), pre.m)

\* a step taken with slip ratio exactly 1
C5_ReachedSlipOne == op = "step" /\ slip(pre) = SCALE

\* a step taken with slip ratio exactly -1
C5_ReachedSlipMinusOne == op = "step" /\ slip(pre) = -SCALE

\* a step taken in the linear regime with negative slip
C5_ReachedLinearNegative ==
    op = "step" /\ slip(pre) < 0 /\ slip(pre) > -SCALE /\ F_x(pre) < 0

\* C6: step changes only x, v, a, w_e, w_e_dot: every parameter keeps its
\* value, the instance gains no attribute (no force or torque is stored),
\* and the next state is a function of the pre-call five-variable state and
\* the call's (throttle, alpha) alone.
C6_StepChangesOnlyState ==
    op = "step" =>
        /\ \A n \in ParamNames : self[n] = pre[n]
        /\ DOMAIN self = DOMAIN pre
        /\ DOMAIN self = ParamNames \cup StateNames
        /\ StateOf(self) = StateOf(step(WithState(pre), throttle, alpha))

\* C6 witness: a step that changed all five state variables.
C6_Witness ==
    /\ op = "step"
    /\ self.x # pre.x
    /\ self.v # pre.v
    /\ self.a # pre.a
    /\ self.w_e # pre.w_e
    /\ self.w_e_dot # pre.w_e_dot

\* C7: a step called in a state with v = 0 fails before any assignment, so
\* x, v, a, w_e and w_e_dot keep their pre-call values.
C7_ZeroVelocityStepFails ==
    (op = "step" /\ pre.v = 0) => StateOf(self) = StateOf(pre)

\* the engine-torque polynomial a_0 + a_1*w_e + a_2*w_e^2 of an instance,
\* read as the torque at full throttle
FullTorque(s) == Torque_e(s, SCALE)

\* C8: step never rejects a throttle: below 0 or above 1 the call completes
\* like any other, the torque is throttle times the full-throttle torque
\* (so T_e(-throttle) = -T_e(throttle), and T_e(2*throttle) = 2*T_e(throttle)
\* to within the rounding of the two products),
\* J_e*w_e_dot' is the throttle = 0 value plus exactly that torque, and so
\* w_e_dot' differs from the throttle = 0 case by throttle*(a_0 + a_1*w_e +
\* a_2*w_e^2)/J_e (the two quotients are each rounded, hence to within Ulp).
C8_ThrottleUnvalidatedAndLinear ==
    op = "step" =>
        LET T    == Mul(throttle, FullTorque(pre))
            N0   == - Mul(Mul(pre.GR, pre.r_e), F_load(pre, alpha))
            zero == step(pre, 0, alpha)
        IN  /\ self.x = pre.x + Mul(pre.v, pre.sample_time)
            /\ Torque_e(pre, throttle) = T
            /\ Torque_e(pre, -throttle) = -T
            /\ Abs(Torque_e(pre, 2 * throttle) - 2 * T) <= Ulp
            /\ zero.w_e_dot = Div(N0, pre.J_e)
            /\ self.w_e_dot = Div(N0 + T, pre.J_e)
            /\ Abs((self.w_e_dot - zero.w_e_dot) - Div(T, pre.J_e)) <= Ulp
            /\ \A n \in StateNames \ {"w_e_dot"} : self[n] = zero[n]

\* C8 witness: a completed step with a negative throttle, whose w_e_dot
\* is below that of the same step at throttle 0.
C8_Witness ==
    /\ op = "step"
    /\ throttle < 0
    /\ FullTorque(pre) > 0
    /\ self.w_e_dot < step(pre, 0, alpha).w_e_dot
    /\ self.x # pre.x

\* a completed step with a throttle above 1 and more torque than at 1
C8_ReachedThrottleAboveOne ==
    /\ op = "step"
    /\ throttle > SCALE
    /\ Torque_e(pre, throttle) > FullTorque(pre)

----------------------------------------------------------------------------
(* Claims about whole runs.                                                *)

\* C9: in every state reached by step calls with throttle in [0, 1] and any
\* incline angle, v >= 0.
C9_VelocityNonNegative ==
    (0 <= throttle /\ throttle <= SCALE) => self.v >= 0

\* the velocities of the run so far, the current one last
Velocities == Append(v_data, self.v)

NonDecreasing(q) == \A i \in 1 .. Len(q) - 1 : q[i] <= q[i + 1]

NonIncreasing(q) == \A i \in 1 .. Len(q) - 1 : q[i] >= q[i + 1]

\* the run holds throttle = 0 and alpha = 0
Coasting == throttle = 0 /\ alpha = 0

----------------------------------------------------------------------------
(* Claims about the constant-throttle demo.                                *)

Max(S) == CHOOSE m \in S : \A n \in S : n <= m

Min(S) == CHOOSE m \in S : \A n \in S : m <= n

\* the largest difference between two of the velocities of q
Spread(q) ==
    LET S == {q[i] : i \in 1 .. Len(q)}
    IN  Max(S) - Min(S)

\* the demo has run all its ticks
DemoDone == calls = Ticks /\ throttle = Dec(1, 2) /\ alpha = 0

----------------------------------------------------------------------------
(* Claims about the Bicycle.                                               *)

\* C12: Bicycle.reset(), called in any state, sets xc, yc, theta, delta and
\* beta to 0, the values the constructor gives them, and leaves L, lr,
\* w_max and sample_time as they were.
C12_BicycleResetRestoresState ==
    op = "bicycle.reset" =>
        /\ \A n \in BicycleStateNames :
              fleet.bike[n] = 0 /\ fleet.bike[n] = Bicycle[n]
        /\ \A n \in BicycleParamNames : fleet.bike[n] = pre[n]
        /\ DOMAIN fleet.bike = DOMAIN pre

\* reset() has been called on a bicycle that had moved, turned, steered
\* and slipped
C12_Witness ==
    /\ op = "bicycle.reset"
    /\ pre.xc > 0 /\ pre.yc # 0 /\ pre.theta # 0
    /\ pre.delta # 0 /\ pre.beta # 0
    /\ fleet.bike = Bicycle

\* C13: in rate mode every step changes delta by at most
\* w_max * sample_time in magnitude: a steering rate beyond w_max (10 rad/s
\* with w_max = 1.22) is limited to w_max, the step completes, and a rate
\* within the limit is applied as given.
C13_SteeringRateLimited ==
    (op = "bicycle.step" /\ call.args[3]) =>
        LET w     == call.args[2]
            most  == Mul(pre.w_max, pre.sample_time)
            moved == fleet.bike.delta - pre.delta
        IN  /\ Abs(moved) <= most
            /\ w > pre.w_max => moved = most
            /\ w < -pre.w_max => moved = -most
            /\ Abs(w) <= pre.w_max => moved = Mul(w, pre.sample_time)

\* a step in rate mode asked for 10 rad/s and delta moved by
\* w_max * sample_time
C13_Witness ==
    /\ op = "bicycle.step"
    /\ call.args[3]
    /\ call.args[2] = 10 * SCALE
    /\ call.args[2] > pre.w_max
    /\ fleet.bike.delta - pre.delta = Mul(pre.w_max, pre.sample_time)
    /\ fleet.bike.delta - pre.delta < Mul(call.args[2], pre.sample_time)

\* a step in rate mode asked for a rate within the limit and got it
C13_ReachedWithinLimit ==
    /\ op = "bicycle.step"
    /\ call.args[3]
    /\ Abs(call.args[2]) < pre.w_max
    /\ fleet.bike.delta - pre.delta = Mul(call.args[2], pre.sample_time)
    /\ fleet.bike.delta # pre.delta

\* C14: a step that begins and ends with delta = 0 leaves theta as it was,
\* has beta = 0, and moves (xc, yc) by v * sample_time along the heading
\* theta, whatever the speed v of the step; on a bicycle heading along the
\* x axis with yc = 0, as after reset(), yc stays 0 and xc grows by
\* v * sample_time.
C14_StraightLineAtZeroSteering ==
    (op = "bicycle.step" /\ pre.delta = 0 /\ fleet.bike.delta = 0) =>
        LET v    == call.args[1]
            dt   == pre.sample_time
            bike == fleet.bike
        IN  /\ bike.theta = pre.theta
            /\ bike.beta = 0
            /\ bike.xc = pre.xc + Mul(Mul(v, cos(pre.theta)), dt)
            /\ bike.yc = pre.yc + Mul(Mul(v, sin(pre.theta)), dt)
            /\ pre.theta = 0 => /\ bike.xc = pre.xc + Mul(v, dt)
                                /\ bike.yc = pre.yc
            /\ (pre.theta = 0 /\ pre.yc = 0) => bike.yc = 0

\* a bicycle that had turned away from the x axis and brought delta back
\* to 0 has made a step with delta held at 0: its heading is kept and it
\* has moved along it, sideways too
C14_Witness ==
    /\ op = "bicycle.step"
    /\ pre.delta = 0
    /\ fleet.bike.delta = 0
    /\ pre.theta > 0
    /\ fleet.bike.theta = pre.theta
    /\ fleet.bike.xc > pre.xc
    /\ fleet.bike.yc > pre.yc

\* a bicycle that has only made steps with delta held at 0 since it was
\* built, at two different speeds, is still on the x axis
C14_ReachedStraightFromReset ==
    /\ op = "bicycle.step"
    /\ calls = MaxBicycleCalls
    /\ fleet.bike.delta = 0
    /\ fleet.bike.theta = 0
    /\ fleet.bike.yc = 0
    /\ call.args[1] # 2 * SCALE
    /\ fleet.bike.xc > pre.xc
    /\ fleet.bike.xc < Mul(MaxBicycleCalls * call.args[1], pre.sample_time)

----------------------------------------------------------------------------
(* Claims about several instances.                                         *)

\* C15: instances share no mutable state: a step or reset on one Vehicle
\* leaves every other Vehicle and every Bicycle as it was, parameters
\* included, and a step or reset on a Bicycle leaves every Vehicle as it
\* was, whatever the interleaving of the calls.
C15_InstancesIndependent ==
    [][/\ \A n \in DOMAIN fleet : n # call'.on => fleet'[n] = fleet[n]
       /\ call'.on \in DOMAIN fleet
       /\ self' = self]_vars

\* all three instances have moved and model has then been reset: it is as
\* constructed, the other Vehicle and the Bicycle are where they were
C15_Witness ==
    /\ op = "fleet.reset"
    /\ call.on = "model"
    /\ pre.x > 0
    /\ fleet.model = Vehicle
    /\ fleet.model2.x > 0
    /\ fleet.model2.a # 0
    /\ fleet.bike.xc > 0
    /\ fleet.bike.delta # 0
    /\ self = Vehicle

----------------------------------------------------------------------------
(* Claims about what the inputs of step can reach.                         *)

\* C16: the inputs of a step call do not reach x, v or w_e after it: a copy
\* of the instance the call began with, stepped with any other (throttle,
\* alpha), agrees with it on x, v and w_e and on every parameter, and
\* a copy stepped with another throttle and the same alpha agrees on a as
\* well; only a and w_e_dot can differ. The first step of a constructed
\* instance leaves v = 5 and w_e = 100 and sets x = 5 * sample_time.
C16_InputsReachOnlyRates ==
    op = "step" =>
        /\ \A th \in Throttles, al \in Alphas :
              LET copy == step(pre, th, al)
              IN  /\ copy.x = self.x
                  /\ copy.v = self.v
                  /\ copy.w_e = self.w_e
                  /\ \A n \in ParamNames : copy[n] = self[n]
                  /\ al = alpha => copy.a = self.a
                  /\ (al = alpha /\ th = throttle) => copy = self
        /\ pre = Vehicle => /\ self.v = Vehicle.v
                            /\ self.w_e = Vehicle.w_e
                            /\ self.x = Mul(Vehicle.v, Vehicle.sample_time)
                            /\ self.x > 0

\* a step has been made from a state with a # 0 and w_e_dot # 0, and
\* copies stepped with other inputs differ from it: in w_e_dot alone for
\* another throttle, in a and w_e_dot for another alpha
C16_Witness ==
    /\ op = "step"
    /\ pre.a # 0
    /\ pre.w_e_dot # 0
    /\ self.v # pre.v
    /\ self.w_e # pre.w_e
    /\ \E th \in Throttles :
          /\ th # throttle
          /\ step(pre, th, alpha).w_e_dot # self.w_e_dot
          /\ step(pre, th, alpha).a = self.a
    /\ \E al \in Alphas :
          /\ al # alpha
          /\ step(pre, throttle, al).a # self.a
          /\ step(pre, throttle, al).w_e_dot # self.w_e_dot
          /\ step(pre, throttle, al).v = self.v

\* C17: a Vehicle that has just been reset cannot be told from one just
\* constructed: whatever calls came before the reset, after the reset and
\* after every step of any sequence of inputs given to both, the two
\* instances are equal, attribute by attribute.
C17_ResetIsFresh ==
    op \in {"twin.reset", "twin.step"} =>
        /\ fleet.model = fleet.model2
        /\ op = "twin.reset" => fleet.model2 = Vehicle
        /\ op = "twin.step" => fleet.model2 = step(pre, call.args[1], call.args[2])

\* a Vehicle was stepped, reset, and then stepped MaxAfter times side by
\* side with a fresh one: both have moved, and they are equal
C17_Witness ==
    /\ op = "twin.step"
    /\ Len(v_data) = MaxAfter
    /\ calls > Len(v_data)
    /\ fleet.model = fleet.model2
    /\ fleet.model2.x > 0
    /\ fleet.model2.a # 0
    /\ fleet.model2.w_e # Vehicle.w_e

----------------------------------------------------------------------------
(* Claims about the incline demo.                                          *)

\* the throttle step the ramp down makes per tick
RampDownStep == Dec(1, 1000)

C18_ReachedBoundaries ==
    /\ op = "step"
    /\ calls - 1 \in {500, 1500}
    /\ throttle = Dec(1, 2)

\* the state part of C19: what each tick of the incline demo does
Incline_PositionAndSlope ==
    op = "step" =>
        /\ self.x = pre.x + Mul(pre.v, pre.sample_time)
        /\ pre.v >= 0 => self.x >= pre.x
        /\ x_data[Len(x_data)] = pre.x
        /\ NonDecreasing(Append(x_data, self.x))
        /\ Cardinality(alpha_branches(pre.x)) = 1
        /\ alpha = Dec(5, 100) <=> pre.x <= 60 * SCALE
        /\ alpha = Dec(1, 10) <=> (pre.x > 60 * SCALE /\ pre.x < 150 * SCALE)
        /\ alpha = 0 <=> pre.x >= 150 * SCALE

\* C19: in the incline demo every step moves x by v * sample_time, so x
\* does not decrease while v >= 0, and the positions recorded in x_data
\* never decrease; alpha is 0.05 while x <= 60, 0.1 while
\* 60 < x < 150 and 0 once x >= 150, exactly one branch applying at every
\* x; and the three phases come in that order: once the slope is 0.1 it
\* is never 0.05 again, and once it is 0 it stays 0.
C19_InclinePhasesOrdered ==
    /\ []Incline_PositionAndSlope
    /\ []((op = "step" /\ alpha = Dec(1, 10)) => [](alpha # Dec(5, 100)))
    /\ []((op = "step" /\ alpha = 0) => [](alpha = 0))

\* the demo has been on both slopes and is on the flat, still moving
\* forward
C19_Witness ==
    /\ op = "step"
    /\ alpha = 0
    /\ alpha_branches(pre.x) = {3}
    /\ pre.x > 150 * SCALE
    /\ pre.v > 0
    /\ self.x > pre.x
    /\ calls = InclineTicks

\* the tick at which the slope changes from 0.05 to 0.1
C19_ReachedSecondSlope ==
    /\ op = "step"
    /\ alpha = Dec(1, 10)
    /\ alpha_at(pre.x - Mul(pre.v, pre.sample_time), alpha) = Dec(5, 100)

====
